---- MODULE Spec2Model ----
(***************************************************************************)
(* SentimentAnalyzer (src/src/sentiment_analyzer.py) with the settings of  *)
(* SentimentConfig (src/src/config.py).                                    *)
(*                                                                         *)
(* One Analyzer, constructed once, is called by the threads of Threads.    *)
(* A call is two steps: normalisation and tokenization (up to the entry of *)
(* the forward pass), then the forward pass with the post-processing and   *)
(* the return.  Between the two steps the call is inside the forward pass  *)
(* of the model.  A finished call keeps its outcome until the calling      *)
(* thread takes it and is free to call again.                              *)
(*                                                                         *)
(* Python values: None, a str and a list are records [t, v]; a str is the  *)
(* sequence of its word ids.  Probabilities are fixed-point numbers, SCALE *)
(* standing for 1.0.  Class indices are 0-based as in the code.  The       *)
(* tokenizer and the model are those of the transformers library: the      *)
(* tokenizer by its truncation, padding and argument checks, the model by  *)
(* a fixed linear scoring of the attended tokens of each checkpoint.       *)
(***************************************************************************)
EXTENDS Integers, Sequences, FiniteSets, TLC

\* ---------------------------------------------------------------- bounds
\* the length of the longest text, in words, and of the longest list of texts
MaxTextLen == 2
MaxBatch == 2
\* SentimentConfig.MAX_LENGTH as set by SENTIMENT_MAX_LENGTH (512 when unset),
\* small enough here for a text of MaxTextLen words to be truncated
MAX_LENGTH == 3

Threads == {"t1", "t2"}

\* ------------------------------------------------------------- constants
MODEL_NAME == "tabularisai/multilingual-sentiment-analysis"
SENTIMENT_MAP ==
  (0 :> "Very Negative") @@ (1 :> "Negative") @@ (2 :> "Neutral")
    @@ (3 :> "Positive") @@ (4 :> "Very Positive")

\* special token ids of the loaded tokenizer; PAD is masked out
CLS == 101
SEP == 102
PAD == 0
\* fixed-point unit of a probability: SCALE is 1.0
SCALE == 10000

\* ----------------------------------------------------------- Python values
NoneVal == [t |-> "None", v |-> <<>>]
Str(s) == [t |-> "str", v |-> s]
List(l) == [t |-> "list", v |-> l]

\* a text of n words is the first n words of one sentence: word k has id k;
\* the texts are the empty one, the one-word one and the longest one
Strings == { Str([i \in 1..n |-> i]) : n \in {0, 1, MaxTextLen} }
Items == Strings \cup {NoneVal}
Lists == UNION { { List(l) : l \in [1..n -> Items] } : n \in 0..MaxBatch }
Inputs == Strings \cup {NoneVal} \cup Lists

isinstance_str(x) == x.t = "str"

\* ------------------------------------------------------------ arithmetic
RECURSIVE SumSeq(_)
SumSeq(s) == IF s = <<>> THEN 0 ELSE Head(s) + SumSeq(Tail(s))

MaxOf(s) == CHOOSE m \in { s[i] : i \in DOMAIN s } : \A i \in DOMAIN s : s[i] <= m

\* exp(-d) in units of 1/SCALE, for an integer d >= 0
ExpNeg(d) ==
  CASE d = 0 -> 10000 [] d = 1 -> 3679 [] d = 2 -> 1353 [] d = 3 -> 498
    [] d = 4 -> 183 [] d = 5 -> 67 [] d = 6 -> 25 [] d = 7 -> 9
    [] d = 8 -> 3 [] d = 9 -> 1 [] OTHER -> 0

\* --------------------------------------------------------------- tokenizer
\* Truncate keeping the tail of the text instead of its head
Truncate_head(words, n) ==
  SubSeq(words, IF Len(words) < n THEN 1 ELSE Len(words) - n + 1, Len(words))

\* truncation=True: the tail of the text is dropped
Truncate(words, n) == SubSeq(words, 1, IF Len(words) < n THEN Len(words) ELSE n)

\* one text with its special tokens, at most MAX_LENGTH ids
Encode(words) == <<CLS>> \o Truncate(words, MAX_LENGTH - 2) \o <<SEP>>

\* padding=True: right-padding to the longest row of the batch
PadTo(row, n) == row \o [i \in 1..(n - Len(row)) |-> PAD]
MaskTo(row, n) == [i \in 1..n |-> IF i <= Len(row) THEN 1 ELSE 0]

NoInputs == [input_ids |-> <<>>, attention_mask |-> <<>>]

\* Tokenizer encoding None as the empty text instead of raising
Tokenizer_none_as_empty(texts) ==
  LET items == IF texts.t = "None" THEN <<Str(<<>>)>>
               ELSE [i \in DOMAIN texts.v |->
                       IF texts.v[i].t = "str" THEN texts.v[i] ELSE Str(<<>>)]
  IN  IF Len(items) = 0
        THEN [ok |-> FALSE, exc |-> "IndexError", enc |-> NoInputs]
        ELSE LET rows == [i \in DOMAIN items |-> Encode(items[i].v)]
                 n == MaxOf([i \in DOMAIN rows |-> Len(rows[i])])
             IN  [ok |-> TRUE, exc |-> "",
                  enc |-> [input_ids |-> [i \in DOMAIN rows |-> PadTo(rows[i], n)],
                           attention_mask |-> [i \in DOMAIN rows |-> MaskTo(rows[i], n)]]]

\* self.tokenizer(texts, return_tensors="pt", truncation=True, padding=True,
\* max_length=MAX_LENGTH): the encoding, or the exception it raises
Tokenizer(texts) ==
  IF texts.t = "None"
    THEN [ok |-> FALSE, exc |-> "ValueError", enc |-> NoInputs]
  ELSE IF Len(texts.v) = 0
    THEN [ok |-> FALSE, exc |-> "IndexError", enc |-> NoInputs]
  ELSE IF texts.v[1].t # "str"
    THEN [ok |-> FALSE, exc |-> "ValueError", enc |-> NoInputs]
  ELSE IF \E i \in DOMAIN texts.v : texts.v[i].t # "str"
    THEN [ok |-> FALSE, exc |-> "TypeError", enc |-> NoInputs]
  ELSE LET rows == [i \in DOMAIN texts.v |-> Encode(texts.v[i].v)]
           n == MaxOf([i \in DOMAIN rows |-> Len(rows[i])])
       IN  [ok |-> TRUE, exc |-> "",
            enc |-> [input_ids |-> [i \in DOMAIN rows |-> PadTo(rows[i], n)],
                     attention_mask |-> [i \in DOMAIN rows |-> MaskTo(rows[i], n)]]]

\* ------------------------------------------------------------------- model
\* the checkpoints from_pretrained can load, by name
ModelNames == {MODEL_NAME, "alt/five-class", "alt/six-class"}

from_pretrained(name) ==
  [name |-> name, num_labels |-> IF name = "alt/six-class" THEN 6 ELSE 5]

\* the contribution of one attended token to the score of class c
Emb(name, tok, c) ==
  CASE name = MODEL_NAME ->
         IF tok = CLS THEN (IF c = 2 THEN 1 ELSE 0)
         ELSE IF tok = SEP THEN 0
         ELSE (IF c = (tok + 2) % 5 THEN 2 ELSE 0)
    [] name = "alt/five-class" ->
         IF tok = CLS THEN (IF c = 1 THEN 1 ELSE 0)
         ELSE IF tok = SEP THEN 0
         ELSE (IF c = (tok * 2) % 5 THEN 3 ELSE IF c = 0 THEN 1 ELSE 0)
    [] OTHER ->
         IF tok = CLS THEN (IF c = 2 THEN 1 ELSE 0)
         ELSE IF tok = SEP THEN 0
         ELSE (IF c = (tok + 4) % 6 THEN 2 ELSE 0)

\* the logits of the forward pass: one row of class scores per text; the
\* padding positions are not attended
Forward(m, enc) ==
  [i \in DOMAIN enc.input_ids |->
     [k \in 1..m.num_labels |->
        SumSeq([j \in DOMAIN enc.input_ids[i] |->
                  enc.attention_mask[i][j] * Emb(m.name, enc.input_ids[i][j], k - 1)])]]

\* torch.nn.functional.softmax(logits, dim=-1), one row
SoftmaxRow(x) ==
  LET m == MaxOf(x)
      e == [k \in DOMAIN x |-> ExpNeg(m - x[k])]
      s == SumSeq(e)
  IN  [k \in DOMAIN x |-> (e[k] * SCALE) \div s]

\* Softmax left out: the raw scores in the unit of a probability
Softmax_omitted(logits) ==
  [i \in DOMAIN logits |-> [k \in DOMAIN logits[i] |-> logits[i][k] * SCALE]]

Softmax(logits) == [i \in DOMAIN logits |-> SoftmaxRow(logits[i])]

\* torch.argmax(p, dim=-1): the first index of the maximum, 0-based
ArgMaxRow(p) ==
  (CHOOSE k \in DOMAIN p : p[k] = MaxOf(p) /\ \A j \in 1..(k - 1) : p[j] # MaxOf(p)) - 1

ArgMax(probs) == [i \in DOMAIN probs |-> ArgMaxRow(probs[i])]

\* MaxValues reading the first class instead of the maximum
MaxValues_first(probs) == [i \in DOMAIN probs |-> probs[i][1]]

\* torch.max(p, dim=-1)[0]: the maximum value of each row
MaxValues(probs) == [i \in DOMAIN probs |-> MaxOf(probs[i])]

\* MapLabels with a default label for an unmapped index (dict.get)
MapLabels_default(sm, classes) ==
  [ok |-> TRUE, exc |-> "",
   v |-> [i \in DOMAIN classes |->
            IF classes[i] \in DOMAIN sm THEN sm[classes[i]] ELSE "Neutral"]]

\* [self.sentiment_map[cls] for cls in predicted_classes]
MapLabels(sm, classes) ==
  IF \E i \in DOMAIN classes : classes[i] \notin DOMAIN sm
    THEN [ok |-> FALSE, exc |-> "KeyError", v |-> <<>>]
    ELSE [ok |-> TRUE, exc |-> "", v |-> [i \in DOMAIN classes |-> sm[classes[i]]]]

\* ------------------------------------------------------------------- state
VARIABLES
  model_name, tokenizer, model, sentiment_map,   \* the Analyzer's fields
  engine_reentrant,     \* whether the execution engine is reentrant
  pc,                   \* per thread: idle, forward, returned, raised
  method,               \* per thread: the method called
  texts,                \* per thread: the caller's argument object
  inputs,               \* per thread: the local inputs
  probabilities,        \* per thread: the local probabilities
  predicted_classes,    \* per thread: the local predicted_classes
  result,               \* per thread: the value returned
  exc                   \* per thread: the exception raised

analyzer == <<model_name, tokenizer, model, sentiment_map>>
vars == <<model_name, tokenizer, model, sentiment_map, engine_reentrant,
          pc, method, texts, inputs, probabilities, predicted_classes, result, exc>>

\* SentimentAnalyzer.__init__(model_name), before any call
Init ==
  /\ \E a \in ModelNames \cup {"", "None"} :
       model_name = IF a \in {"", "None"} THEN MODEL_NAME ELSE a
  /\ tokenizer = [name |-> model_name]
  /\ model = from_pretrained(model_name)
  /\ sentiment_map = SENTIMENT_MAP
  /\ engine_reentrant \in BOOLEAN
  /\ pc = [t \in Threads |-> "idle"]
  /\ method = [t \in Threads |-> ""]
  /\ texts = [t \in Threads |-> NoneVal]
  /\ inputs = [t \in Threads |-> NoInputs]
  /\ probabilities = [t \in Threads |-> <<>>]
  /\ predicted_classes = [t \in Threads |-> <<>>]
  /\ result = [t \in Threads |-> <<>>]
  /\ exc = [t \in Threads |-> ""]

\* lines 50-61 and 91-102: the call up to the entry of the forward pass
Enter(t, name, x) ==
  /\ pc[t] = "idle"
  /\ \E tk \in {Tokenizer(IF isinstance_str(x) THEN List(<<x>>) ELSE x)} :
       /\ pc' = [pc EXCEPT ![t] = IF tk.ok THEN "forward" ELSE "raised"]
       /\ exc' = [exc EXCEPT ![t] = tk.exc]
       /\ inputs' = [inputs EXCEPT ![t] = tk.enc]
  /\ method' = [method EXCEPT ![t] = name]
  /\ texts' = [texts EXCEPT ![t] = x]
  /\ probabilities' = [probabilities EXCEPT ![t] = <<>>]
  /\ predicted_classes' = [predicted_classes EXCEPT ![t] = <<>>]
  /\ result' = [result EXCEPT ![t] = <<>>]
  /\ UNCHANGED <<analyzer, engine_reentrant>>

predict_sentiment_call(t) ==
  /\ pc[t] = "idle"
  /\ \E x \in Inputs : Enter(t, "predict_sentiment", x)

predict_sentiment_with_scores_call(t) ==
  /\ pc[t] = "idle"
  /\ \E x \in Inputs : Enter(t, "predict_sentiment_with_scores", x)

\* predict_sentiment_infer with a weight update after the forward pass
predict_sentiment_infer_trains(t) ==
  /\ pc[t] = "forward"
  /\ method[t] = "predict_sentiment"
  /\ \E outputs \in {Forward(model, inputs[t])} :
     \E probs \in {Softmax(outputs)} :
     \E classes \in {ArgMax(probs)} :
     \E sentiments \in {MapLabels(sentiment_map, classes)} :
       /\ probabilities' = [probabilities EXCEPT ![t] = probs]
       /\ predicted_classes' = [predicted_classes EXCEPT ![t] = classes]
       /\ pc' = [pc EXCEPT ![t] = IF sentiments.ok THEN "returned" ELSE "raised"]
       /\ exc' = [exc EXCEPT ![t] = sentiments.exc]
       /\ result' = [result EXCEPT ![t] = sentiments.v]
  /\ model' = [model EXCEPT !.name = "alt/five-class"]
  /\ UNCHANGED <<model_name, tokenizer, sentiment_map, engine_reentrant,
                 method, texts, inputs>>

\* lines 63-74: forward pass, softmax, argmax, label lookup, return
predict_sentiment_infer(t) ==
  /\ pc[t] = "forward"
  /\ method[t] = "predict_sentiment"
  /\ \E outputs \in {Forward(model, inputs[t])} :
     \E probs \in {Softmax(outputs)} :
     \E classes \in {ArgMax(probs)} :
     \E sentiments \in {MapLabels(sentiment_map, classes)} :
       /\ probabilities' = [probabilities EXCEPT ![t] = probs]
       /\ predicted_classes' = [predicted_classes EXCEPT ![t] = classes]
       /\ pc' = [pc EXCEPT ![t] = IF sentiments.ok THEN "returned" ELSE "raised"]
       /\ exc' = [exc EXCEPT ![t] = sentiments.exc]
       /\ result' = [result EXCEPT ![t] = sentiments.v]
  /\ UNCHANGED <<analyzer, engine_reentrant, method, texts, inputs>>

\* predict_sentiment_with_scores_infer storing a default label for every
\* unmapped index in the label table (dict.setdefault)
predict_sentiment_with_scores_infer_setdefault(t) ==
  /\ pc[t] = "forward"
  /\ method[t] = "predict_sentiment_with_scores"
  /\ \E outputs \in {Forward(model, inputs[t])} :
     \E probs \in {Softmax(outputs)} :
     \E classes \in {ArgMax(probs)} :
     \E confidence_scores \in {MaxValues(probs)} :
     \E sm \in {[c \in DOMAIN sentiment_map \cup {classes[i] : i \in DOMAIN classes} |->
                   IF c \in DOMAIN sentiment_map THEN sentiment_map[c] ELSE "Neutral"]} :
       /\ probabilities' = [probabilities EXCEPT ![t] = probs]
       /\ predicted_classes' = [predicted_classes EXCEPT ![t] = classes]
       /\ pc' = [pc EXCEPT ![t] = "returned"]
       /\ exc' = [exc EXCEPT ![t] = ""]
       /\ result' = [result EXCEPT ![t] =
            [i \in DOMAIN classes |-> <<sm[classes[i]], confidence_scores[i]>>]]
       /\ sentiment_map' = sm
  /\ UNCHANGED <<model_name, tokenizer, model, engine_reentrant, method, texts, inputs>>

\* lines 104-119: the same with the maximum probability of each item
predict_sentiment_with_scores_infer(t) ==
  /\ pc[t] = "forward"
  /\ method[t] = "predict_sentiment_with_scores"
  /\ \E outputs \in {Forward(model, inputs[t])} :
     \E probs \in {Softmax(outputs)} :
     \E classes \in {ArgMax(probs)} :
     \E confidence_scores \in {MaxValues(probs)} :
     \E sentiments \in {MapLabels(sentiment_map, classes)} :
       /\ probabilities' = [probabilities EXCEPT ![t] = probs]
       /\ predicted_classes' = [predicted_classes EXCEPT ![t] = classes]
       /\ pc' = [pc EXCEPT ![t] = IF sentiments.ok THEN "returned" ELSE "raised"]
       /\ exc' = [exc EXCEPT ![t] = sentiments.exc]
       /\ result' = [result EXCEPT ![t] =
            [i \in DOMAIN sentiments.v |-> <<sentiments.v[i], confidence_scores[i]>>]]
  /\ UNCHANGED <<analyzer, engine_reentrant, method, texts, inputs>>

\* the call is over: its frame is gone and the thread may call again
call_end(t) ==
  /\ pc[t] \in {"returned", "raised"}
  /\ pc' = [pc EXCEPT ![t] = "idle"]
  /\ method' = [method EXCEPT ![t] = ""]
  /\ texts' = [texts EXCEPT ![t] = NoneVal]
  /\ inputs' = [inputs EXCEPT ![t] = NoInputs]
  /\ probabilities' = [probabilities EXCEPT ![t] = <<>>]
  /\ predicted_classes' = [predicted_classes EXCEPT ![t] = <<>>]
  /\ result' = [result EXCEPT ![t] = <<>>]
  /\ exc' = [exc EXCEPT ![t] = ""]
  /\ UNCHANGED <<analyzer, engine_reentrant>>

Next ==
  \E t \in Threads :
    \/ predict_sentiment_call(t)
    \/ predict_sentiment_with_scores_call(t)
    \/ predict_sentiment_infer(t)
    \/ predict_sentiment_with_scores_infer(t)
    \/ call_end(t)

Spec == Init /\ [][Next]_vars

\* ------------------------------------------------------------ properties
Finished(t) == pc[t] \in {"returned", "raised"}

\* the items of an argument: a single string counts as a one-element list
ItemsOf(x) == IF x.t = "str" THEN <<x>> ELSE x.v

IsStringSeq(x) ==
  x.t = "str" \/ (x.t = "list" /\ \A i \in DOMAIN x.v : x.v[i].t = "str")

HasNone(x) ==
  x.t = "None" \/ (x.t = "list" /\ \E i \in DOMAIN x.v : x.v[i].t = "None")

LabelsOf(t) ==
  IF method[t] = "predict_sentiment" THEN result[t]
  ELSE [i \in DOMAIN result[t] |-> result[t][i][1]]

\* the number of words of a text that survive truncation
Kept(words) == IF Len(words) < MAX_LENGTH - 2 THEN Len(words) ELSE MAX_LENGTH - 2

\* C1: a finished call on a sequence of N strings (a single string being a
\* one-element sequence) has returned a list of exactly N results, and the
\* result at position i is the one a call of the same method on text i alone
\* returns.  (A call that ended in the label table's KeyError is C3's case.)
C1_LengthAndOrder ==
  \A t \in Threads :
    (Finished(t) /\ IsStringSeq(texts[t]) /\ exc[t] # "KeyError") =>
      /\ pc[t] = "returned"
      /\ Len(result[t]) = Len(ItemsOf(texts[t]))
      /\ \A u \in Threads :
           (pc[u] = "returned" /\ method[u] = method[t] /\ texts[u].t = "str") =>
             \A i \in DOMAIN result[t] :
               ItemsOf(texts[t])[i] = texts[u] => result[t][i] = result[u][1]

\* C1 on the batches of at least one string, where the code agrees with it
C1_NonEmptyLengthAndOrder ==
  \A t \in Threads :
    (Finished(t) /\ IsStringSeq(texts[t]) /\ exc[t] # "KeyError"
       /\ Len(ItemsOf(texts[t])) >= 1) =>
      /\ pc[t] = "returned"
      /\ Len(result[t]) = Len(ItemsOf(texts[t]))
      /\ \A u \in Threads :
           (pc[u] = "returned" /\ method[u] = method[t] /\ texts[u].t = "str") =>
             \A i \in DOMAIN result[t] :
               ItemsOf(texts[t])[i] = texts[u] => result[t][i] = result[u][1]

\* C2: a finished call on the empty list has returned the empty list and
\* raised nothing.
C2_EmptyReturnsEmpty ==
  \A t \in Threads :
    (Finished(t) /\ texts[t] = List(<<>>)) =>
      pc[t] = "returned" /\ result[t] = <<>> /\ exc[t] = ""

\* C3: when the predicted class of some item of the batch has no entry in
\* the label table, the call has raised the lookup's KeyError and returned
\* nothing: no label in place of the missing one, no partial list.
C3_UnmappedIndexRaises ==
  \A t \in Threads :
    (Finished(t) /\ \E i \in DOMAIN predicted_classes[t] :
                       predicted_classes[t][i] \notin DOMAIN sentiment_map) =>
      pc[t] = "raised" /\ exc[t] = "KeyError" /\ result[t] = <<>>

C3_Witness ==
  \E t \in Threads :
    /\ pc[t] = "raised" /\ exc[t] = "KeyError"
    /\ \E i, j \in DOMAIN predicted_classes[t] :
         /\ predicted_classes[t][i] \notin DOMAIN sentiment_map
         /\ predicted_classes[t][j] \in DOMAIN sentiment_map

\* C4: a call whose argument is None, or a list with None among its
\* elements, has raised the tokenizer's exception; it never enters the
\* forward pass (no encoding, no probabilities) and returns nothing.
C4_NoneRaises ==
  \A t \in Threads :
    (pc[t] # "idle" /\ HasNone(texts[t])) =>
      /\ pc[t] = "raised"
      /\ exc[t] \in {"ValueError", "TypeError"}
      /\ inputs[t] = NoInputs
      /\ probabilities[t] = <<>>
      /\ result[t] = <<>>

C4_Witness ==
  \E t, u \in Threads :
    /\ pc[t] = "raised" /\ texts[t] = NoneVal
    /\ pc[u] = "raised" /\ texts[u].t = "list" /\ Len(texts[u].v) = 2
    /\ texts[u].v[1].t = "str" /\ texts[u].v[2].t = "None"

\* C5: the score predict_sentiment_with_scores returns at a position is the
\* softmax probability at the item's argmax index, which is the maximum of
\* the item's class probabilities, and its label is the one
\* predict_sentiment returns at that position for the same input.
C5_ScoresAgree ==
  \A t \in Threads :
    (pc[t] = "returned" /\ method[t] = "predict_sentiment_with_scores") =>
      /\ \A i \in DOMAIN result[t] :
           /\ result[t][i][2] = probabilities[t][i][predicted_classes[t][i] + 1]
           /\ \A k \in DOMAIN probabilities[t][i] :
                probabilities[t][i][k] <= result[t][i][2]
      /\ \A u \in Threads :
           (pc[u] = "returned" /\ method[u] = "predict_sentiment"
              /\ texts[u] = texts[t]) =>
             result[u] = [i \in DOMAIN result[t] |-> result[t][i][1]]

C5_Witness ==
  \E t, u \in Threads :
    /\ pc[t] = "returned" /\ method[t] = "predict_sentiment_with_scores"
    /\ pc[u] = "returned" /\ method[u] = "predict_sentiment"
    /\ texts[u] = texts[t]
    /\ Len(result[t]) = 2
    /\ result[t][1][2] # result[t][2][2]

\* C6: every returned label is one of the five labels and every returned
\* score lies between 0.0 and 1.0.
C6_WellFormed ==
  \A t \in Threads :
    pc[t] = "returned" =>
      \A i \in DOMAIN result[t] :
        /\ LabelsOf(t)[i] \in
             {"Very Negative", "Negative", "Neutral", "Positive", "Very Positive"}
        /\ method[t] = "predict_sentiment_with_scores" =>
             (0 <= result[t][i][2] /\ result[t][i][2] <= SCALE)

C6_Witness ==
  \E t, u \in Threads :
    /\ pc[t] = "returned" /\ method[t] = "predict_sentiment_with_scores"
    /\ texts[t] = Str(<<>>) /\ Len(result[t]) = 1
    /\ pc[u] = "returned" /\ method[u] = "predict_sentiment_with_scores"
    /\ Len(result[u]) = 2 /\ result[u][1][2] < SCALE

\* C7: the texts of one call are encoded to one common length, at most
\* MAX_LENGTH; a text is its first words up to the room MAX_LENGTH leaves,
\* between the two special tokens, right-padded to the longest row of the
\* batch; no text is refused for its length and each one yields a label.
C7_UniformEncoding ==
  \A t \in Threads :
    (pc[t] # "idle" /\ IsStringSeq(texts[t]) /\ Len(ItemsOf(texts[t])) >= 1) =>
      LET items == ItemsOf(texts[t])
          ids == inputs[t].input_ids
          mask == inputs[t].attention_mask
      IN  /\ DOMAIN ids = DOMAIN items /\ DOMAIN mask = DOMAIN items
          /\ \A i \in DOMAIN items :
               /\ Len(ids[i]) = Len(ids[1]) /\ Len(mask[i]) = Len(ids[1])
               /\ Len(ids[i]) <= MAX_LENGTH
               /\ ids[i][1] = CLS
               /\ \A j \in 1..Kept(items[i].v) : ids[i][j + 1] = items[i].v[j]
               /\ ids[i][Kept(items[i].v) + 2] = SEP
               /\ \A j \in 1..Len(ids[i]) :
                    /\ j > Kept(items[i].v) + 2 => (ids[i][j] = PAD /\ mask[i][j] = 0)
                    /\ j <= Kept(items[i].v) + 2 => mask[i][j] = 1
          /\ \E i \in DOMAIN items : Len(ids[1]) = Kept(items[i].v) + 2
          /\ pc[t] = "raised" => exc[t] = "KeyError"
          /\ pc[t] = "returned" => Len(result[t]) = Len(items)

C7_Witness ==
  \E t \in Threads :
    /\ pc[t] = "returned" /\ texts[t].t = "list" /\ Len(texts[t].v) = 2
    /\ Len(texts[t].v[1].v) > MAX_LENGTH - 2
    /\ Len(texts[t].v[2].v) < MAX_LENGTH - 2
    /\ Len(result[t]) = 2

\* C8: no step of a call changes the Analyzer's model_name, tokenizer, model
\* or sentiment_map, and the argument of a call in progress is the same
\* object when the call is over.
C8_Frame ==
  [][ /\ analyzer' = analyzer
      /\ \A t \in Threads : pc[t] = "forward" => texts'[t] = texts[t] ]_vars

C8_Witness ==
  \E t, u \in Threads :
    /\ pc[t] = "returned" /\ Len(result[t]) >= 1
    /\ pc[u] = "raised"

\* C9: two calls of one method with the same input on the Analyzer have
\* returned the same labels, whatever calls were made before or between.
C9_Idempotent ==
  \A t, u \in Threads :
    (pc[t] = "returned" /\ pc[u] = "returned" /\ method[t] = method[u]
       /\ texts[t] = texts[u]) =>
      LabelsOf(t) = LabelsOf(u)

C9_Witness ==
  \E t, u \in Threads :
    /\ t # u
    /\ pc[t] = "returned" /\ pc[u] = "returned" /\ method[t] = method[u]
    /\ texts[t] = texts[u]
    /\ Len(result[t]) = 2

====
